---- MODULE Spec2Model ----
(***************************************************************************)
(* Model of scripts/trace-status.py (kopi TDL traceability status).        *)
(*                                                                         *)
(* Text (file contents, file names, paths, identifiers, status values) is  *)
(* a sequence of one-character strings, so that the regular expressions of *)
(* the script are modelled by what they match, character by character.     *)
(***************************************************************************)
EXTENDS Integers, Sequences, FiniteSets, TLC

----------------------------------------------------------------------------
(* Character classes of the regular expressions.                           *)

Upper == {"A","B","C","D","E","F","G","H","I","J","K","L","M",
          "N","O","P","Q","R","S","T","U","V","W","X","Y","Z"}

Lower == {"a","b","c","d","e","f","g","h","i","j","k","l","m",
          "n","o","p","q","r","s","t","u","v","w","x","y","z"}

Digit == {"0","1","2","3","4","5","6","7","8","9"}

\* \s
Space == {" ", "\n", "\t", "\r"}

\* [0-9a-z]
LowAlnum == Digit \cup Lower

\* the class of the slug without the slash: [^\s\]]
SlugStopNoSlash == Space \cup {"]"}

\* the characters excluded by [^/\s\]]
SlugStop == Space \cup {"/", "]"}

----------------------------------------------------------------------------
(* Literals of the source, spelled out as character sequences.             *)

LitLinks == <<"#","#"," ","L","i","n","k","s">>
LitNlHash == <<"\n","#","#">>
LitNlDash == <<"\n","-">>
LitFormal == <<"F","o","r","m","a","l"," ","R","e","q","u","i","r","e","m","e","n","t">>
LitRequirement == <<"R","e","q","u","i","r","e","m","e","n","t">>
LitRelatedADR == <<"R","e","l","a","t","e","d"," ","A","D","R">>
LitRelatedAnalyse == <<"R","e","l","a","t","e","d"," ","A","n","a","l","y","s","e">>
LitDesign == <<"D","e","s","i","g","n",":">>
LitPlan == <<"P","l","a","n",":">>
LitStatus == <<"-"," ","S","t","a","t","u","s",":">>
LitUnknown == <<"U","n","k","n","o","w","n">>
LitTraceability == <<"t","r","a","c","e","a","b","i","l","i","t","y",".","m","d">>
LitTemplates == <<"t","e","m","p","l","a","t","e","s","/">>
LitAN == <<"A","N","-">>
LitFR == <<"F","R","-">>
LitNFR == <<"N","F","R","-">>
LitADR == <<"A","D","R","-">>
LitT == <<"T","-">>

----------------------------------------------------------------------------
(* Helpers on text.                                                        *)

\* lit occurs in s starting at index i
MatchAt(s, i, lit) ==
    /\ i >= 1
    /\ i + Len(lit) - 1 <= Len(s)
    /\ \A k \in 1..Len(lit) : s[i + k - 1] = lit[k]

\* Python: lit in s
Contains(s, lit) == \E i \in 1..(Len(s) + 1) : MatchAt(s, i, lit)

\* Python: s.startswith(lit)
StartsWith(s, lit) == MatchAt(s, 1, lit)

\* s[i..j-1], empty when j <= i
Slice(s, i, j) == [k \in 1..(IF j > i THEN j - i ELSE 0) |-> s[i + k - 1]]

\* first index >= i whose character is not in class (Len(s)+1 when none):
\* the end of a greedy run of class characters starting at i
RunEnd(s, i, class) ==
    LET stops == {k \in i..Len(s) : s[k] \notin class}
    IN  IF stops = {} THEN (IF i > Len(s) THEN i ELSE Len(s) + 1)
        ELSE CHOOSE k \in stops : \A m \in stops : k <= m

\* first index >= i whose character is in class (Len(s)+1 when none)
RunUntil(s, i, class) ==
    LET hits == {k \in i..Len(s) : s[k] \in class}
    IN  IF hits = {} THEN (IF i > Len(s) THEN i ELSE Len(s) + 1)
        ELSE CHOOSE k \in hits : \A m \in hits : k <= m

Min(S) == CHOOSE k \in S : \A m \in S : k <= m
Max(S) == CHOOSE k \in S : \A m \in S : k >= m

\* Python: str.strip()
Strip(s) ==
    LET keep == {k \in 1..Len(s) : s[k] \notin Space}
    IN  IF keep = {} THEN <<>> ELSE Slice(s, Min(keep), Max(keep) + 1)

----------------------------------------------------------------------------
(* TDLDocument.extract_id: re.match(r'^([A-Z]+-[^-]+)', filename)          *)

extract_id(filename) ==
    LET u == RunEnd(filename, 1, Upper)        \* [A-Z]+ is greedy
        e == RunUntil(filename, u + 1, {"-"})  \* [^-]+ is greedy
    IN  IF /\ u > 1
           /\ u <= Len(filename)
           /\ filename[u] = "-"
           /\ e > u + 1
        THEN Slice(filename, 1, e)
        ELSE filename

(* TDLDocument.extract_type                                                *)
extract_type(filename) ==
    IF StartsWith(filename, LitAN) THEN "analysis"
    ELSE IF StartsWith(filename, LitFR) THEN "requirement"
    ELSE IF StartsWith(filename, LitNFR) THEN "requirement"
    ELSE IF StartsWith(filename, LitADR) THEN "adr"
    ELSE IF StartsWith(filename, LitT) THEN "task"
    ELSE "unknown"

----------------------------------------------------------------------------
(* The identifier pattern of parse_links:                                  *)
(*   [A-Z]+-[0-9a-z]{4,5}(?:-[^/\s\]]+)?|[A-Z]+-\d+                        *)
(* IdMatchEnd(s, i) is the index after the match that starts at i, or 0.   *)

IdMatchEnd(s, i) ==
    LET u == RunEnd(s, i, Upper)
    IN  IF ~(u > i /\ u <= Len(s) /\ s[u] = "-") THEN 0
        ELSE
          LET c  == RunEnd(s, u + 1, LowAlnum) - (u + 1)
              p  == u + 1 + (IF c >= 5 THEN 5 ELSE 4)
              sl == RunUntil(s, p + 1, SlugStop)
              d  == RunEnd(s, u + 1, Digit)
          IN  IF c >= 4
              THEN IF p <= Len(s) /\ s[p] = "-" /\ sl > p + 1 THEN sl ELSE p
              ELSE IF d > u + 1 THEN d ELSE 0

(* re.findall of the identifier pattern over s, from index i on            *)
RECURSIVE FindIds(_, _)
FindIds(s, i) ==
    IF i > Len(s) THEN <<>>
    ELSE LET e == IdMatchEnd(s, i)
         IN  IF e = 0 THEN FindIds(s, i + 1)
             ELSE <<Slice(s, i, e)>> \o FindIds(s, e)

----------------------------------------------------------------------------
(* TDLDocument.parse_links, the text processing after the read.            *)

(* re.search(r'## Links\s*\n(.*?)(?=\n##|\Z)', content, re.DOTALL).       *)
(* LinksGroupStart(content, p): where group 1 starts if the pattern        *)
(* matches at p, else 0. The greedy \s* gives back characters until a      *)
(* newline follows it, so the group starts after the last newline of the   *)
(* whitespace run that follows the heading.                                *)
LinksGroupStart(content, p) ==
    IF ~MatchAt(content, p, LitLinks) THEN 0
    ELSE LET j   == p + Len(LitLinks)
             k   == RunEnd(content, j, Space)
             nls == {m \in j..(k - 1) : content[m] = "\n"}
         IN  IF nls = {} THEN 0 ELSE Max(nls) + 1

\* end of a lazy (.*?) that starts at g and is followed by (?=\n##|\Z)
LinksGroupEnd(content, g) ==
    Min({e \in g..(Len(content) + 1) :
            MatchAt(content, e, LitNlHash) \/ e = Len(content) + 1})

\* [matched |-> links_match is not None, text |-> links_match.group(1)]
LinksSection(content) ==
    LET starts == {p \in 1..Len(content) : LinksGroupStart(content, p) # 0}
    IN  IF starts = {} THEN [matched |-> FALSE, text |-> <<>>]
        ELSE LET g == LinksGroupStart(content, Min(starts))
             IN  [matched |-> TRUE,
                  text |-> Slice(content, g, LinksGroupEnd(content, g))]

(* One entry of `patterns`: lit, an optional "s" when plural, then ":"     *)
(* (the literals of Design: and Plan: carry their colon). MarkerEnd is the *)
(* index after the marker if it matches at p, else 0.                      *)
MarkerEnd(s, p, lit, plural) ==
    IF ~MatchAt(s, p, lit) THEN 0
    ELSE LET q == p + Len(lit)
         IN  IF ~plural THEN q
             ELSE IF MatchAt(s, q, <<"s", ":">>) THEN q + 2
             ELSE IF MatchAt(s, q, <<":">>) THEN q + 1
             ELSE 0

\* end of a lazy (.*?) that starts at g and is followed by (?=\n-|\n##|\Z)
SpanEnd(s, g) ==
    Min({e \in g..(Len(s) + 1) :
            \/ MatchAt(s, e, LitNlDash)
            \/ MatchAt(s, e, LitNlHash)
            \/ e = Len(s) + 1})

(* re.search(pattern, links_content, re.DOTALL) and the findall over its   *)
(* group: the first place the marker occurs, \s* greedy, then the span.    *)
PatternIds(s, lit, plural) ==
    LET starts == {p \in 1..Len(s) : MarkerEnd(s, p, lit, plural) # 0}
    IN  IF starts = {} THEN [matched |-> FALSE, ids |-> <<>>]
        ELSE LET g == RunEnd(s, MarkerEnd(s, Min(starts), lit, plural), Space)
             IN  [matched |-> TRUE,
                  ids |-> FindIds(Slice(s, g, SpanEnd(s, g)), 1)]

\* the dict built by the loop over `patterns`; a matched marker creates its
\* category even when it contributes no identifier
LinksOf(s) ==
    LET formal == PatternIds(s, LitFormal, TRUE)
        reqs   == PatternIds(s, LitRequirement, TRUE)
        adrs   == PatternIds(s, LitRelatedADR, TRUE)
        anas   == PatternIds(s, LitRelatedAnalyse, TRUE)
        design == PatternIds(s, LitDesign, FALSE)
        plan   == PatternIds(s, LitPlan, FALSE)
        keys   == {c \in {"requirements", "adrs", "analyses", "design", "plan"} :
                     \/ c = "requirements" /\ (formal.matched \/ reqs.matched)
                     \/ c = "adrs" /\ adrs.matched
                     \/ c = "analyses" /\ anas.matched
                     \/ c = "design" /\ design.matched
                     \/ c = "plan" /\ plan.matched}
    IN  [c \in keys |->
            CASE c = "requirements" -> formal.ids \o reqs.ids
              [] c = "adrs" -> adrs.ids
              [] c = "analyses" -> anas.ids
              [] c = "design" -> design.ids
              [] c = "plan" -> plan.ids]

NoLinks == [c \in {} |-> <<>>]

\* parse_links when read_text succeeded and returned content
parse_links_text(content) ==
    LET sec == LinksSection(content)
    IN  IF ~sec.matched THEN NoLinks ELSE LinksOf(sec.text)

\* Python: links.get(cat, [])
LinksGet(links, cat) == IF cat \in DOMAIN links THEN links[cat] ELSE <<>>

----------------------------------------------------------------------------
(* TDLDocument.extract_status, the text processing after the read:         *)
(*   re.search(r'^- Status:\s*(.+)$', content, re.MULTILINE)               *)
(* StatusGroupStart(content, p): where group 1 starts if the pattern       *)
(* matches at p, else 0. \s* is greedy and crosses newlines; it gives back *)
(* characters until (.+) finds a character that is not a newline.          *)
StatusGroupStart(content, p) ==
    IF ~((p = 1 \/ content[p - 1] = "\n") /\ MatchAt(content, p, LitStatus))
    THEN 0
    ELSE LET j  == p + Len(LitStatus)
             k  == RunEnd(content, j, Space)
             ok == {m \in j..k : m <= Len(content) /\ content[m] # "\n"}
         IN  IF ok = {} THEN 0 ELSE Max(ok)

\* extract_status when read_text succeeded and returned content
extract_status_text(content) ==
    LET starts == {p \in 1..Len(content) : StatusGroupStart(content, p) # 0}
    IN  IF starts = {} THEN LitUnknown
        ELSE LET g == StatusGroupStart(content, Min(starts))
             IN  Strip(Slice(content, g, RunUntil(content, g, {"\n"})))

----------------------------------------------------------------------------
(* Python's ordering of str (by code point), for sorted().                 *)

\* the characters of the model in code-point order
CodePoints ==
    <<"\t", "\n", "\r", " ", "#", "-", ".", "/",
      "0","1","2","3","4","5","6","7","8","9", ":",
      "A","B","C","D","E","F","G","H","I","J","K","L","M",
      "N","O","P","Q","R","S","T","U","V","W","X","Y","Z", "]",
      "a","b","c","d","e","f","g","h","i","j","k","l","m",
      "n","o","p","q","r","s","t","u","v","w","x","y","z">>

OrdTable == [c \in {CodePoints[i] : i \in 1..Len(CodePoints)} |->
                CHOOSE i \in 1..Len(CodePoints) : CodePoints[i] = c]

\* Python: ord(c), up to the order
Ord(c) == OrdTable[c]

\* Python: a < b on str
StrLess(a, b) ==
    \E i \in 1..(Len(a) + 1) :
        /\ \A k \in 1..(i - 1) : k <= Len(b) /\ a[k] = b[k]
        /\ i <= Len(b)
        /\ (i = Len(a) + 1 \/ Ord(a[i]) < Ord(b[i]))

\* x put at its place in the sorted sequence srt (after its equals)
RECURSIVE InsertSorted(_, _)
InsertSorted(srt, x) ==
    IF srt = <<>> THEN <<x>>
    ELSE IF StrLess(x, Head(srt)) THEN <<x>> \o srt
    ELSE <<Head(srt)>> \o InsertSorted(Tail(srt), x)

\* Python: sorted(xs) for a list of str
RECURSIVE sorted(_)
sorted(xs) ==
    IF xs = <<>> THEN <<>>
    ELSE InsertSorted(sorted(SubSeq(xs, 1, Len(xs) - 1)), xs[Len(xs)])

Range(q) == {q[i] : i \in 1..Len(q)}

----------------------------------------------------------------------------
(* The documents dict: Python dicts keep insertion order, and assigning to *)
(* an existing key replaces the value at the key's place.                  *)

DictKeys(d) == {d[i].key : i \in 1..Len(d)}

DictGet(d, k) == (CHOOSE e \in Range(d) : e.key = k).val

DictSet(d, k, v) ==
    IF k \in DictKeys(d)
    THEN [i \in 1..Len(d) |-> IF d[i].key = k THEN [key |-> k, val |-> v] ELSE d[i]]
    ELSE Append(d, [key |-> k, val |-> v])

\* list(d.values())
DictValues(d) == [i \in 1..Len(d) |-> d[i].val]

----------------------------------------------------------------------------
(* TDLDocument.__init__: the document built from one file. links_ok and    *)
(* status_ok say whether the read_text of parse_links, resp. of            *)
(* extract_status, returned the content (TRUE) or raised (FALSE): the two  *)
(* methods read the file separately, each inside its own try.              *)

\* the name of a file together with the directory it lies in
FileNameWithParent(path) ==
    LET slashes == {i \in 1..Len(path) : path[i] = "/"}
        before  == {i \in slashes : i < Max(slashes)}
    IN  IF before = {} THEN path ELSE Slice(path, Max(before) + 1, Len(path) + 1)

\* path.name
FileName(path) ==
    LET slashes == {i \in 1..Len(path) : path[i] = "/"}
    IN  IF slashes = {} THEN path ELSE Slice(path, Max(slashes) + 1, Len(path) + 1)

\* parse_links: an exception leaves the defaultdict empty
parse_links(content, links_ok) ==
    IF links_ok THEN parse_links_text(content) ELSE NoLinks

\* extract_status: an exception falls through to 'Unknown'
extract_status(content, status_ok) ==
    IF status_ok THEN extract_status_text(content) ELSE LitUnknown

TDLDocument(path, content, links_ok, status_ok) ==
    [path     |-> path,
     filename |-> FileName(path),
     doc_id   |-> extract_id(FileName(path)),
     doc_type |-> extract_type(FileName(path)),
     links    |-> parse_links(content, links_ok),
     status   |-> extract_status(content, status_ok)]

\* A printed line: the f-string with its fields left open, and the text of
\* each field in order.
Line(fmt, args) == [fmt |-> fmt, args |-> args]

\* the text of the exception a failed read raises
ErrText == <<"e","r","r","o","r">>

\* what parse_links prints to sys.stderr while the document is built
ParseWarning(path) == Line("Warning: Failed to parse {}: {}", <<path, ErrText>>)

ParseWarnings(path, links_ok) ==
    IF links_ok THEN <<>> ELSE <<ParseWarning(path)>>

----------------------------------------------------------------------------
(* TraceabilityAnalyzer: the queries over self.documents.                  *)

\* find_implementing_tasks, from index i of the dict on
RECURSIVE ImplementingFrom(_, _, _)
ImplementingFrom(docs, req_id, i) ==
    IF i > Len(docs) THEN <<>>
    ELSE (IF /\ docs[i].val.doc_type = "task"
             /\ req_id \in Range(LinksGet(docs[i].val.links, "requirements"))
          THEN <<docs[i].key>> ELSE <<>>)
         \o ImplementingFrom(docs, req_id, i + 1)

find_implementing_tasks(docs, req_id) == ImplementingFrom(docs, req_id, 1)

\* find_orphan_requirements without the test of the document type
RECURSIVE OrphanAnyTypeFrom(_, _)
OrphanAnyTypeFrom(docs, i) ==
    IF i > Len(docs) THEN <<>>
    ELSE (IF find_implementing_tasks(docs, docs[i].key) = <<>>
          THEN <<docs[i].key>> ELSE <<>>)
         \o OrphanAnyTypeFrom(docs, i + 1)

find_orphan_requirements_any_type(docs) == OrphanAnyTypeFrom(docs, 1)

\* find_orphan_requirements, from index i of the dict on
RECURSIVE OrphanReqsFrom(_, _)
OrphanReqsFrom(docs, i) ==
    IF i > Len(docs) THEN <<>>
    ELSE (IF /\ docs[i].val.doc_type = "requirement"
             /\ find_implementing_tasks(docs, docs[i].key) = <<>>
          THEN <<docs[i].key>> ELSE <<>>)
         \o OrphanReqsFrom(docs, i + 1)

find_orphan_requirements(docs) == OrphanReqsFrom(docs, 1)

\* find_orphan_tasks, from index i of the dict on
RECURSIVE OrphanTasksFrom(_, _)
OrphanTasksFrom(docs, i) ==
    IF i > Len(docs) THEN <<>>
    ELSE (IF /\ docs[i].val.doc_type = "task"
             /\ LinksGet(docs[i].val.links, "requirements") = <<>>
          THEN <<docs[i].key>> ELSE <<>>)
         \o OrphanTasksFrom(docs, i + 1)

find_orphan_tasks(docs) == OrphanTasksFrom(docs, 1)

OfType(docs, t) ==
    LET IsT(d) == d.doc_type = t IN SelectSeq(DictValues(docs), IsT)

RECURSIVE Gcd(_, _)
Gcd(a, b) == IF b = 0 THEN a ELSE Gcd(b, a % b)

\* the real number a / b * 100 as a fraction <<numerator, denominator>>
\* in lowest terms (b > 0)
Percent(a, b) ==
    LET g == Gcd(a * 100, b) IN <<(a * 100) \div g, b \div g>>

\* calculate_coverage that reports full coverage for a corpus without
\* requirements
calculate_coverage_vacuous(docs) ==
    LET requirements == OfType(docs, "requirement")
        HasTasks(r) == find_implementing_tasks(docs, r.doc_id) # <<>>
        req_with_tasks == Len(SelectSeq(requirements, HasTasks))
    IN  [total_requirements |-> Len(requirements),
         total_tasks |-> Len(OfType(docs, "task")),
         total_analyses |-> Len(OfType(docs, "analysis")),
         total_adrs |-> Len(OfType(docs, "adr")),
         requirements_with_tasks |-> req_with_tasks,
         coverage_percentage |->
             IF requirements # <<>>
             THEN Percent(req_with_tasks, Len(requirements))
             ELSE <<100, 1>>]

calculate_coverage(docs) ==
    LET requirements == OfType(docs, "requirement")
        HasTasks(r) == find_implementing_tasks(docs, r.doc_id) # <<>>
        req_with_tasks == Len(SelectSeq(requirements, HasTasks))
    IN  [total_requirements |-> Len(requirements),
         total_tasks |-> Len(OfType(docs, "task")),
         total_analyses |-> Len(OfType(docs, "analysis")),
         total_adrs |-> Len(OfType(docs, "adr")),
         requirements_with_tasks |-> req_with_tasks,
         coverage_percentage |->
             IF requirements # <<>>
             THEN Percent(req_with_tasks, Len(requirements))
             ELSE <<0, 1>>]

----------------------------------------------------------------------------
(* Reporter: print_status and check_integrity.                             *)

\* str(n) for an int n >= 0
RECURSIVE Decimal(_)
Decimal(n) ==
    LET digit == <<"0","1","2","3","4","5","6","7","8","9">>[(n % 10) + 1]
    IN  IF n < 10 THEN <<digit>> ELSE Append(Decimal(n \div 10), digit)

\* '{x:.0f}' for the fraction x: round to nearest, ties to even
Format0f(x) ==
    LET q == x[1] \div x[2]
        r == x[1] % x[2]
    IN  Decimal(IF 2 * r < x[2] THEN q
                ELSE IF 2 * r > x[2] THEN q + 1
                ELSE IF q % 2 = 0 THEN q ELSE q + 1)

\* doc_type.title()
Title(t) ==
    CASE t = "analysis" -> <<"A","n","a","l","y","s","i","s">>
      [] t = "requirement" -> <<"R","e","q","u","i","r","e","m","e","n","t">>
      [] t = "adr" -> <<"A","d","r">>
      [] t = "task" -> <<"T","a","s","k">>

CoverageLines(docs) ==
    LET coverage == calculate_coverage(docs)
    IN  << Line("=== Kopi TDL Status ===\n", <<>>),
           Line("Coverage:", <<>>),
           Line("  Documents: {} analyses, {} requirements, {} ADRs, {} tasks",
                <<Decimal(coverage.total_analyses),
                  Decimal(coverage.total_requirements),
                  Decimal(coverage.total_adrs),
                  Decimal(coverage.total_tasks)>>),
           Line("  Implementation: {}/{} requirements have tasks ({}%)",
                <<Decimal(coverage.requirements_with_tasks),
                  Decimal(coverage.total_requirements),
                  Format0f(coverage.coverage_percentage)>>),
           Line("", <<>>) >>

\* the Gaps block; the warning sign of the source is written (!) here
GapLines(docs, gaps_only) ==
    LET orphan_reqs == find_orphan_requirements(docs)
        orphan_tasks == find_orphan_tasks(docs)
        sreqs == sorted(orphan_reqs)
        stasks == sorted(orphan_tasks)
    IN  IF orphan_reqs # <<>> \/ orphan_tasks # <<>>
        THEN << Line("Gaps:", <<>>) >>
             \o [i \in 1..Len(sreqs) |->
                    Line("  (!) {}: No implementing task (Status: {})",
                         <<sreqs[i], DictGet(docs, sreqs[i]).status>>)]
             \o [i \in 1..Len(stasks) |->
                    Line("  (!) {}: No linked requirements", <<stasks[i]>>)]
             \o << Line("", <<>>) >>
        ELSE IF ~gaps_only THEN << Line("(ok) No gaps detected\n", <<>>) >>
        ELSE <<>>

\* the keys of by_status: the distinct status values of ds, in first-seen order
RECURSIVE StatusKeys(_)
StatusKeys(ds) ==
    IF ds = <<>> THEN <<>>
    ELSE LET rest == StatusKeys(SubSeq(ds, 1, Len(ds) - 1))
             st   == ds[Len(ds)].status
         IN  IF st \in Range(rest) THEN rest ELSE Append(rest, st)

\* the block of one document type: its header, then one line per status
\* value in sorted order with the number of documents that carry it
TypeLines(docs, t) ==
    LET ds == OfType(docs, t)
        statuses == sorted(StatusKeys(ds))
    IN  IF ds = <<>> THEN <<>>
        ELSE << Line("\n  {}s:", <<Title(t)>>) >>
             \o [i \in 1..Len(statuses) |->
                    Line("    {}: {}",
                         <<statuses[i],
                           Decimal(Cardinality({k \in 1..Len(ds) :
                                                  ds[k].status = statuses[i]}))>>)]

SummaryLines(docs) ==
    << Line("Status by Document Type:", <<>>) >>
    \o TypeLines(docs, "analysis")
    \o TypeLines(docs, "requirement")
    \o TypeLines(docs, "adr")
    \o TypeLines(docs, "task")

\* everything print_status writes to stdout
print_status(docs, gaps_only) ==
    (IF gaps_only THEN <<>> ELSE CoverageLines(docs))
    \o GapLines(docs, gaps_only)
    \o (IF gaps_only THEN <<>> ELSE SummaryLines(docs))

\* check_integrity that fails on orphan requirements only
check_integrity_reqs_only(docs) ==
    LET orphan_reqs == find_orphan_requirements(docs)
        orphan_tasks == find_orphan_tasks(docs)
    IN  IF orphan_reqs # <<>>
        THEN [ok  |-> FALSE,
              err |-> << Line("Traceability gaps detected:", <<>>) >>
                      \o [i \in 1..Len(orphan_reqs) |->
                             Line("  - {}: No implementing task", <<orphan_reqs[i]>>)]
                      \o [i \in 1..Len(orphan_tasks) |->
                             Line("  - {}: No linked requirements", <<orphan_tasks[i]>>)]]
        ELSE [ok |-> TRUE, err |-> <<>>]

\* check_integrity: the returned boolean and what it writes to stderr
check_integrity(docs) ==
    LET orphan_reqs == find_orphan_requirements(docs)
        orphan_tasks == find_orphan_tasks(docs)
    IN  IF orphan_reqs # <<>> \/ orphan_tasks # <<>>
        THEN [ok  |-> FALSE,
              err |-> << Line("Traceability gaps detected:", <<>>) >>
                      \o [i \in 1..Len(orphan_reqs) |->
                             Line("  - {}: No implementing task", <<orphan_reqs[i]>>)]
                      \o [i \in 1..Len(orphan_tasks) |->
                             Line("  - {}: No linked requirements", <<orphan_tasks[i]>>)]]
        ELSE [ok |-> TRUE, err |-> <<>>]

----------------------------------------------------------------------------
(* The file system the script runs on: files with a path and a content.    *)

RepoRoot == <<"/","r">>

\* repo_root / 'docs' / dir
BasePath(dir) == RepoRoot \o <<"/","d","o","c","s","/">> \o dir

DirAnalysis == <<"a","n","a","l","y","s","i","s">>
DirRequirements == <<"r","e","q","u","i","r","e","m","e","n","t","s">>
DirAdr == <<"a","d","r">>
DirTasks == <<"t","a","s","k","s">>
LitDotMd == <<".","m","d">>
LitPlanMd == <<"p","l","a","n",".","m","d">>
LitDesignMd == <<"d","e","s","i","g","n",".","m","d">>

\* doc_paths of load_documents
doc_paths ==
    << [base |-> BasePath(DirAnalysis), pattern |-> "*.md"],
       [base |-> BasePath(DirRequirements), pattern |-> "*.md"],
       [base |-> BasePath(DirAdr), pattern |-> "*.md"],
       [base |-> BasePath(DirTasks), pattern |-> "**/plan.md"],
       [base |-> BasePath(DirTasks), pattern |-> "**/design.md"] >>

EndsWith(s, lit) == MatchAt(s, Len(s) - Len(lit) + 1, lit)

\* path is among the results of base.glob(pattern)
GlobMatches(path, base, pattern) ==
    /\ StartsWith(path, base \o <<"/">>)
    /\ LET rest == Slice(path, Len(base) + 2, Len(path) + 1)
       IN  CASE pattern = "*.md" -> ~Contains(rest, <<"/">>) /\ EndsWith(rest, LitDotMd)
             [] pattern = "**/plan.md" ->
                    rest = LitPlanMd \/ EndsWith(rest, <<"/">> \o LitPlanMd)
             [] pattern = "**/design.md" ->
                    rest = LitDesignMd \/ EndsWith(rest, <<"/">> \o LitDesignMd)

\* the test of load_documents that skips traceability.md and templates
Skipped(path) == Contains(path, LitTraceability) \/ Contains(path, LitTemplates)

\* file contents
CEmpty == <<>>
CDraft == LitStatus \o <<" ","D","r","a","f","t","\n">>
CLinksFR == LitLinks \o <<"\n","-"," ">> \o LitRequirement \o <<"s",":"," ","F","R","-","0","0","0","1","\n">>

File(rel, content) == [path |-> RepoRoot \o <<"/","d","o","c","s","/">> \o rel, content |-> content]

ReqA == File(<<"r","e","q","u","i","r","e","m","e","n","t","s","/","F","R","-","0","0","0","1","-","a",".","m","d">>, CDraft)
ReqB == File(<<"r","e","q","u","i","r","e","m","e","n","t","s","/","F","R","-","0","0","0","1","-","b",".","m","d">>, CEmpty)
ReqN == File(<<"r","e","q","u","i","r","e","m","e","n","t","s","/","N","F","R","-","0","0","0","2","-","x",".","m","d">>, CEmpty)
AnaTask == File(<<"a","n","a","l","y","s","i","s","/","T","-","0","0","0","3","-","x",".","m","d">>, CLinksFR)
AnaOrphan == File(<<"a","n","a","l","y","s","i","s","/","T","-","0","0","0","4","-","x",".","m","d">>, CDraft)
AnaDoc == File(<<"a","n","a","l","y","s","i","s","/","A","N","-","0","0","0","1","-","x",".","m","d">>, CDraft)
PlanOne == File(<<"t","a","s","k","s","/","T","-","0","0","0","1","-","x","/","p","l","a","n",".","m","d">>, CLinksFR)
PlanTwo == File(<<"t","a","s","k","s","/","T","-","0","0","0","2","-","x","/","p","l","a","n",".","m","d">>, CDraft)
DesignOne == File(<<"t","a","s","k","s","/","T","-","0","0","0","1","-","x","/","d","e","s","i","g","n",".","m","d">>, CLinksFR)
PlanTemplate == File(<<"t","a","s","k","s","/","t","e","m","p","l","a","t","e","s","/","p","l","a","n",".","m","d">>, CEmpty)

\* the files a run may find under docs/
FilePool == {ReqA, ReqB, ReqN, AnaTask, AnaOrphan, AnaDoc,
             PlanOne, PlanTwo, DesignOne, PlanTemplate}

\* the largest number of files under docs/ in one run
MaxFiles == 3

----------------------------------------------------------------------------
(* What load_documents makes of each file of the pool. These are constants *)
(* of the model (TLC evaluates each once): they hold the values of the     *)
(* operators above for the files of FilePool.                              *)

PoolPaths == {f.path : f \in FilePool}

\* the index in doc_paths of the collection whose glob yields path, 0 when
\* no glob does
CollectionOf ==
    [p \in PoolPaths |->
        LET hits == {k \in 1..Len(doc_paths) :
                        GlobMatches(p, doc_paths[k].base, doc_paths[k].pattern)}
        IN  IF hits = {} THEN 0 ELSE Min(hits)]

\* the test of the `continue`
SkippedPath == [p \in PoolPaths |-> Skipped(p)]

\* TDLDocument(file_path) for each outcome of the two reads
DocumentOf ==
    [f \in FilePool |->
        [links_ok \in BOOLEAN |->
            [status_ok \in BOOLEAN |->
                TDLDocument(f.path, f.content, links_ok, status_ok)]]]

----------------------------------------------------------------------------
(* State.                                                                  *)

VARIABLES
    fs,         \* the files under docs/ (the environment of the run)
    pc,         \* where main is: "start", "load", "main", "done"
    trace,      \* the files the loops of load_documents have got so far, in
                \* order, each with what became of it
    documents,  \* TraceabilityAnalyzer.documents
    stderr,     \* lines written to sys.stderr
    stdout,     \* lines written to sys.stdout
    exit_code,  \* the exit status of the process, -1 while it runs
    args,       \* the parsed command line, filled in when main branches on it
    input,      \* input of a text function checked on its own
    result      \* its result

vars == <<fs, pc, trace, documents, stderr, stdout, exit_code, args, input, result>>

textVars == <<input, result>>
runVars == <<fs, trace, documents, stderr, stdout, exit_code, args>>

\* the command line before main looks at it
NoArgs == [read |-> FALSE, check |-> FALSE, gaps |-> FALSE]

Init ==
    /\ fs \in {S \in SUBSET FilePool : Cardinality(S) <= MaxFiles}
    /\ pc = "start"
    /\ trace = <<>>
    /\ documents = <<>>
    /\ stderr = <<>>
    /\ stdout = <<>>
    /\ exit_code = -1
    /\ args = NoArgs
    /\ input = <<>>
    /\ result = <<>>

----------------------------------------------------------------------------
(* main: repository root discovery.                                        *)

\* the walk up from the working directory finds .git or Cargo.toml
RootFound ==
    /\ pc = "start"
    /\ pc' = "load"
    /\ UNCHANGED <<fs, trace, documents, stderr, stdout, exit_code, args, textVars>>

\* the walk reaches the file system root: the else branch of the while
RootNotFound ==
    /\ pc = "start"
    /\ stderr' = Append(stderr, Line("Error: Could not find repository root", <<>>))
    /\ exit_code' = 1
    /\ pc' = "done"
    /\ UNCHANGED <<fs, trace, documents, stdout, args, textVars>>

----------------------------------------------------------------------------
(* TraceabilityAnalyzer.load_documents: the two nested loops. The outer    *)
(* loop takes the collections in the order of doc_paths (a base path that  *)
(* does not exist yields nothing); within a collection the glob yields the *)
(* files in an order the file system chooses.                              *)

Traced == {trace[i].path : i \in 1..Len(trace)}

\* the files the globs have still to yield
Unvisited == {f \in fs : CollectionOf[f.path] # 0 /\ f.path \notin Traced}

\* the files the inner loop may get next: those of the first collection
\* that has not been gone through
Pending ==
    {f \in Unvisited : \A g \in Unvisited : CollectionOf[f.path] <= CollectionOf[g.path]}

\* one iteration of the inner loop that hits the `continue`
SkipFile(f) ==
    /\ pc = "load"
    /\ SkippedPath[f.path]
    /\ trace' = Append(trace, [path |-> f.path, skipped |-> TRUE,
                               links_ok |-> TRUE, status_ok |-> TRUE])
    /\ UNCHANGED <<fs, pc, documents, stderr, stdout, exit_code, args, textVars>>

\* an insertion that keeps the document already stored under the key
InsertDocumentKeepFirst(docs, doc) ==
    IF doc.doc_id \in DictKeys(docs) THEN docs ELSE DictSet(docs, doc.doc_id, doc)

\* the dict after self.documents[doc.doc_id] = doc
InsertDocument(docs, doc) == DictSet(docs, doc.doc_id, doc)

\* one iteration of the inner loop that builds and stores a document
LoadFile(f, links_ok, status_ok) ==
    /\ pc = "load"
    /\ ~SkippedPath[f.path]
    /\ documents' = InsertDocument(documents, DocumentOf[f][links_ok][status_ok])
    /\ stderr' = stderr \o ParseWarnings(f.path, links_ok)
    /\ trace' = Append(trace, [path |-> f.path, skipped |-> FALSE,
                               links_ok |-> links_ok, status_ok |-> status_ok])
    /\ UNCHANGED <<fs, pc, stdout, exit_code, args, textVars>>

\* every glob is exhausted: load_documents and the constructor return
LoadDone ==
    /\ pc = "load"
    /\ Unvisited = {}
    /\ pc' = "main"
    /\ UNCHANGED <<fs, trace, documents, stderr, stdout, exit_code, args, textVars>>

----------------------------------------------------------------------------
(* main: the modes.                                                        *)

\* args.check; args.gaps is not looked at on this branch
RunCheck ==
    /\ pc = "main"
    /\ args' = [read |-> TRUE, check |-> TRUE, gaps |-> FALSE]
    /\ LET r == check_integrity(documents)
       IN  /\ stderr' = stderr \o r.err
           /\ IF r.ok
              THEN /\ stdout' = Append(stdout, Line("(ok) Traceability check passed", <<>>))
                   /\ exit_code' = 0
              ELSE /\ stdout' = stdout
                   /\ exit_code' = 1
    /\ pc' = "done"
    /\ UNCHANGED <<fs, trace, documents, textVars>>

\* display mode, with args.gaps
RunStatus(gaps_only) ==
    /\ pc = "main"
    /\ args' = [read |-> TRUE, check |-> FALSE, gaps |-> gaps_only]
    /\ stdout' = stdout \o print_status(documents, gaps_only)
    /\ exit_code' = 0
    /\ pc' = "done"
    /\ UNCHANGED <<fs, trace, documents, stderr, textVars>>

Next ==
    \/ RootFound
    \/ RootNotFound
    \/ \E f \in Pending : SkipFile(f)
    \/ \E f \in Pending, links_ok \in BOOLEAN, status_ok \in BOOLEAN :
          LoadFile(f, links_ok, status_ok)
    \/ LoadDone
    \/ RunCheck
    \/ \E gaps_only \in BOOLEAN : RunStatus(gaps_only)

Spec == Init /\ [][Next]_vars

----------------------------------------------------------------------------
(* The text functions on their own: parse_links and extract_status applied *)
(* to texts put together from a few pieces.                                *)

IdFR0001 == <<"F","R","-","0","0","0","1">>
IdT0002 == <<"T","-","0","0","0","2">>

\* the pieces of q one after the other
RECURSIVE Concat(_)
Concat(q) == IF q = <<>> THEN <<>> ELSE Head(q) \o Concat(Tail(q))

\* all sequences over S of length at most n
SeqsUpTo(S, n) == UNION {[1..k -> S] : k \in 0..n}

TextFixed ==
    /\ fs = {}
    /\ trace = <<>>
    /\ documents = <<>>
    /\ stderr = <<>>
    /\ stdout = <<>>
    /\ exit_code = -1
    /\ args = NoArgs

(* -- parse_links on a Links section made of list entries ---------------- *)

MaxEntries == 2
MaxIds == 2

MarkerText(m) ==
    CASE m = "formal" -> LitFormal \o <<"s", ":">>
      [] m = "reqs" -> LitRequirement \o <<"s", ":">>
      [] m = "design" -> LitDesign

\* "ID, ID" for the identifiers of an entry
RECURSIVE JoinIds(_)
JoinIds(ids) ==
    IF ids = <<>> THEN <<>>
    ELSE IF Len(ids) = 1 THEN ids[1]
    ELSE ids[1] \o <<",", " ">> \o JoinIds(Tail(ids))

\* the list item "- Marker: ID, ID\n"
EntryText(e) ==
    <<"-", " ">> \o MarkerText(e.marker) \o <<" ">> \o JoinIds(e.ids) \o <<"\n">>

Entries ==
    [marker : {"formal", "reqs", "design"}, ids : SeqsUpTo({IdFR0001, IdT0002}, MaxIds) \ {<<>>}]

\* a document of a title line, the Links heading and the entries
EntriesText(es) ==
    <<"#"," ","T","\n","\n">> \o LitLinks \o <<"\n", "\n">>
    \o Concat([i \in 1..Len(es) |-> EntryText(es[i])])

InitLinks ==
    /\ input \in SeqsUpTo(Entries, MaxEntries)
    /\ result = <<>>
    /\ pc = "text"
    /\ TextFixed

ParseEntries ==
    /\ pc = "text"
    /\ result' = parse_links(EntriesText(input), TRUE)
    /\ pc' = "parsed"
    /\ UNCHANGED <<input, runVars>>

NextLinks == ParseEntries

SpecLinks == InitLinks /\ [][NextLinks]_vars

(* -- parse_links on a body that contains the Links heading followed by    *)
(*    a newline and `Requirements: FR-0001`, between any text ------------ *)

MaxBefore == 2
MaxAfter == 2

KeyText == LitLinks \o <<"\n">> \o LitRequirement \o <<"s", ":", " ">> \o IdFR0001

BeforePieces == {LitLinks \o <<"\n">>, <<"x", "\n">>, <<"\n">>, <<"#", "#", " ">>}
AfterPieces == {<<"5">>, <<"x">>, <<"-">>, <<"/">>, <<" ">>, <<"\n">>}

KeyBody(in) == Concat(in.before) \o KeyText \o Concat(in.after)

InitKey ==
    /\ input \in [before : SeqsUpTo(BeforePieces, MaxBefore),
                  after : SeqsUpTo(AfterPieces, MaxAfter)]
    /\ result = <<>>
    /\ pc = "text"
    /\ TextFixed

ParseBody ==
    /\ pc = "text"
    /\ result' = parse_links(KeyBody(input), TRUE)
    /\ pc' = "parsed"
    /\ UNCHANGED <<input, runVars>>

NextKey == ParseBody

SpecKey == InitKey /\ [][NextKey]_vars

(* -- extract_status ------------------------------------------------------ *)

MaxPieces == 4

StatusPieces == {LitStatus, <<" ">>, <<"\n">>, <<"D","r","a","f","t">>, <<"-"," ","O","w","n","e","r",":"," ","x">>}

InitStatus ==
    /\ input \in SeqsUpTo(StatusPieces, MaxPieces)
    /\ result = <<>>
    /\ pc = "text"
    /\ TextFixed

ExtractStatus ==
    /\ pc = "text"
    /\ result' = extract_status(Concat(input), TRUE)
    /\ pc' = "extracted"
    /\ UNCHANGED <<input, runVars>>

NextStatus == ExtractStatus

SpecStatus == InitStatus /\ [][NextStatus]_vars

----------------------------------------------------------------------------
(* Properties of a run (specification Spec).                               *)

\* indices of the corpus entries of type t
DocsOfType(t) == {i \in 1..Len(documents) : documents[i].val.doc_type = t}

\* identifiers of the requirement documents that no task document lists
\* among its requirements
OrphanReqIds ==
    {documents[i].val.doc_id : i \in
        {i \in DocsOfType("requirement") :
            ~\E j \in DocsOfType("task") :
                documents[i].val.doc_id
                    \in Range(LinksGet(documents[j].val.links, "requirements"))}}

\* identifiers of the task documents without a requirements link
OrphanTaskIds ==
    {documents[i].val.doc_id : i \in
        {i \in DocsOfType("task") :
            LinksGet(documents[i].val.links, "requirements") = <<>>}}

(* C1: find_orphan_requirements returns exactly the identifiers of the     *)
(* documents of type requirement for which find_implementing_tasks returns *)
(* an empty list, each once.                                               *)
OrphanRequirementsExact ==
    LET orphans == find_orphan_requirements(documents)
    IN  /\ Range(orphans) =
              {documents[i].val.doc_id : i \in
                  {i \in DocsOfType("requirement") :
                      find_implementing_tasks(documents, documents[i].val.doc_id) = <<>>}}
        /\ Cardinality(Range(orphans)) = Len(orphans)

\* the corpus is loaded and holds an orphan requirement, a requirement with
\* an implementing task, and that task
OrphanRequirementsWitness ==
    /\ pc = "main"
    /\ find_orphan_requirements(documents) # <<>>
    /\ \E i \in DocsOfType("requirement") :
          find_implementing_tasks(documents, documents[i].key) # <<>>

(* C2: check mode passes (exit code 0 after the confirmation is printed,   *)
(* nothing on stderr from the check) iff both orphan sets are empty;       *)
(* otherwise the exit code is 1, no confirmation is printed, and every     *)
(* orphan identifier of both sets is on stderr.                            *)
CheckModePassIff ==
    (pc = "done" /\ args.read /\ args.check) =>
        LET passed == /\ exit_code = 0
                      /\ stdout = <<Line("(ok) Traceability check passed", <<>>)>>
            failed == /\ exit_code = 1
                      /\ stdout = <<>>
                      /\ \A id \in OrphanReqIds : \E k \in 1..Len(stderr) :
                            stderr[k] = Line("  - {}: No implementing task", <<id>>)
                      /\ \A id \in OrphanTaskIds : \E k \in 1..Len(stderr) :
                            stderr[k] = Line("  - {}: No linked requirements", <<id>>)
        IN  /\ passed <=> (OrphanReqIds = {} /\ OrphanTaskIds = {})
            /\ passed \/ failed

\* check mode has failed on a corpus with an orphan task and no orphan
\* requirement
CheckModeWitness ==
    /\ pc = "done" /\ args.read /\ args.check
    /\ exit_code = 1
    /\ OrphanReqIds = {}
    /\ OrphanTaskIds # {}
    /\ DocsOfType("requirement") # {}

(* C3: coverage_percentage is 0 when the corpus has no requirement         *)
(* document, 100 when every requirement document has an implementing task, *)
(* and in general requirements_with_tasks / total_requirements * 100.      *)
CoveragePercentage ==
    LET c       == calculate_coverage(documents)
        reqs    == DocsOfType("requirement")
        covered == {i \in reqs : documents[i].val.doc_id \notin OrphanReqIds}
        pct     == c.coverage_percentage
    IN  /\ c.total_requirements = Cardinality(reqs)
        /\ c.requirements_with_tasks = Cardinality(covered)
        /\ reqs = {} => pct = <<0, 1>>
        /\ (reqs # {} /\ covered = reqs) => pct = <<100, 1>>
        /\ reqs # {} =>
              /\ pct[2] > 0
              /\ pct[1] * Cardinality(reqs) = Cardinality(covered) * 100 * pct[2]

\* the corpus is loaded, has documents but no requirement
CoverageWitness ==
    /\ pc = "main"
    /\ documents # <<>>
    /\ DocsOfType("requirement") = {}
    /\ DocsOfType("task") # {}

\* the file of the run at path
FileAt(path) == CHOOSE f \in fs : f.path = path

\* the trace entries that built a document
Built == {i \in 1..Len(trace) : ~trace[i].skipped}

\* the identifier load_documents files trace entry i under
TraceId(i) == DocumentOf[FileAt(trace[i].path)][TRUE][TRUE].doc_id

(* C4: every corpus key is the doc_id of the document stored under it; the *)
(* document stored under a key is the one built from the last loaded file  *)
(* whose identifier is that key; the corpus has one entry per distinct     *)
(* identifier of the loaded files; and a replacement writes no warning     *)
(* (stderr holds the parse warnings of the failed reads and nothing else). *)
LastLoadedWins ==
    /\ \A i \in 1..Len(documents) : documents[i].key = documents[i].val.doc_id
    /\ \A i, j \in 1..Len(documents) : documents[i].key = documents[j].key => i = j
    /\ DictKeys(documents) = {TraceId(i) : i \in Built}
    /\ \A i \in 1..Len(documents) :
          LET same == {k \in Built : TraceId(k) = documents[i].key}
              last == trace[Max(same)]
          IN  documents[i].val =
                 DocumentOf[FileAt(last.path)][last.links_ok][last.status_ok]
    /\ pc \in {"load", "main"} =>
          /\ Len(stderr) = Cardinality({k \in Built : ~trace[k].links_ok})
          /\ \A k \in 1..Len(stderr) :
                stderr[k].fmt = "Warning: Failed to parse {}: {}"

\* two loaded files had the same identifier and different status values,
\* and the reads of both succeeded
LastLoadedWitness ==
    /\ pc = "main"
    /\ \E i, j \in Built :
          /\ i < j
          /\ TraceId(i) = TraceId(j)
          /\ trace[i].links_ok /\ trace[i].status_ok
          /\ trace[j].links_ok /\ trace[j].status_ok
          /\ DocumentOf[FileAt(trace[i].path)][TRUE][TRUE].status
                # DocumentOf[FileAt(trace[j].path)][TRUE][TRUE].status
          /\ stderr = <<>>

\* the last component of a path
OwnName(path) ==
    Slice(path, Max({0} \cup {i \in 1..Len(path) : path[i] = "/"}) + 1, Len(path) + 1)

\* the trace entries that built a document from the tasks tree
BuiltFromTasks == {k \in Built : StartsWith(trace[k].path, BasePath(DirTasks) \o <<"/">>)}

\* the corpus entries whose document comes from the tasks tree
DocsFromTasks ==
    {i \in 1..Len(documents) :
        StartsWith(documents[i].val.path, BasePath(DirTasks) \o <<"/">>)}

(* C10: every document built from a file of the tasks tree has its file    *)
(* name (plan.md or design.md) as doc_id and the type unknown; so the      *)
(* corpus holds at most two documents from the tasks tree, under the keys  *)
(* plan.md and design.md, and a document of type task comes from a file    *)
(* whose own name starts with T-.                                          *)
TasksTreeDocuments ==
    /\ \A k \in BuiltFromTasks :
          LET d == DocumentOf[FileAt(trace[k].path)][trace[k].links_ok][trace[k].status_ok]
          IN  /\ d.doc_id = OwnName(trace[k].path)
              /\ d.doc_id \in {LitPlanMd, LitDesignMd}
              /\ d.doc_type = "unknown"
    /\ \A i \in DocsFromTasks :
          /\ documents[i].key \in {LitPlanMd, LitDesignMd}
          /\ documents[i].val.doc_type = "unknown"
    /\ Cardinality(DocsFromTasks) <= 2
    /\ \A i \in 1..Len(documents) :
          documents[i].val.doc_type = "task" =>
              StartsWith(OwnName(documents[i].val.path), LitT)

\* three files of the tasks tree were loaded, from two task directories,
\* and the corpus holds two documents
TasksTreeWitness ==
    /\ pc = "main"
    /\ Cardinality(BuiltFromTasks) = 3
    /\ Len(documents) = 2
    /\ DictKeys(documents) = {LitPlanMd, LitDesignMd}

(* C5: when a read of a file fails during the load, a warning naming the   *)
(* path of the file is on stderr and the document is in the corpus (with   *)
(* status Unknown and no links when both reads failed); and the load goes  *)
(* through every file the globs yield.                                     *)
ReadFailureWarned ==
    /\ \A k \in Built :
          (~trace[k].links_ok \/ ~trace[k].status_ok) =>
              /\ \E n \in 1..Len(stderr) : stderr[n] = ParseWarning(trace[k].path)
              /\ TraceId(k) \in DictKeys(documents)
              /\ (~trace[k].links_ok /\ ~trace[k].status_ok) =>
                    LET d == DocumentOf[FileAt(trace[k].path)][FALSE][FALSE]
                    IN  d.status = LitUnknown /\ DOMAIN d.links = {}
    /\ (pc = "main" \/ (pc = "done" /\ args.read)) => Unvisited = {}

\* the corpus load_documents builds when the files come in the order es
RECURSIVE LoadAll(_)
LoadAll(es) ==
    IF es = <<>> THEN <<>>
    ELSE LET e == es[Len(es)]
         IN  InsertDocument(LoadAll(SubSeq(es, 1, Len(es) - 1)),
                            DocumentOf[FileAt(e.path)][e.links_ok][e.status_ok])

\* the loaded files of this run in every order the globs could have yielded
\* them: any order within a collection, the collections in their order
AltOrders ==
    LET es == SelectSeq(trace, LAMBDA e : ~e.skipped)
        n  == Len(es)
    IN  {[i \in 1..n |-> es[q[i]]] : q \in
            {q \in [1..n -> 1..n] :
                /\ \A i, j \in 1..n : q[i] = q[j] => i = j
                /\ \A i, j \in 1..n :
                      i < j => CollectionOf[es[q[i]].path] <= CollectionOf[es[q[j]].path]}}

(* C7: the orphan listing of every mode is the same for every order in     *)
(* which the globs could have yielded the same files (with the same read   *)
(* outcomes).                                                              *)
ListingsOrderIndependent ==
    (pc = "done" /\ args.read) =>
        \A alt \in AltOrders :
            IF args.check
            THEN check_integrity(LoadAll(alt)).err = check_integrity(documents).err
            ELSE GapLines(LoadAll(alt), args.gaps) = GapLines(documents, args.gaps)

----------------------------------------------------------------------------
(* Properties of parse_links (specifications SpecLinks and SpecKey).       *)

\* the entries of the input with marker m
EntriesWith(m) == {i \in 1..Len(input) : input[i].marker = m}

(* C8: each marker contributes the identifiers of its own entry once: with *)
(* one Formal Requirements entry listing A and one Requirements entry      *)
(* listing B the requirements list is A followed by B; with only one of    *)
(* the two entries it is the identifiers of that entry, as written.        *)
MarkersContributeOnce ==
    pc = "parsed" =>
        LET formal == EntriesWith("formal")
            reqs   == EntriesWith("reqs")
            A      == input[CHOOSE i \in formal : TRUE].ids
            B      == input[CHOOSE i \in reqs : TRUE].ids
            got    == LinksGet(result, "requirements")
        IN  /\ (Cardinality(formal) = 1 /\ Cardinality(reqs) = 1) => got = A \o B
            /\ (Cardinality(formal) = 1 /\ reqs = {}) => got = A
            /\ (formal = {} /\ Cardinality(reqs) = 1) => got = B

\* where the key text starts in the body, and the index after it
KeyStart == Len(Concat(input.before)) + 1
KeyEnd == KeyStart + Len(KeyText)

(* C6 as stated: whatever text precedes or follows, the requirements list  *)
(* of a body that contains the key text contains FR-0001.                  *)
KeyAlwaysFound ==
    pc = "parsed" => IdFR0001 \in Range(LinksGet(result, "requirements"))

\* no `## Links` starts before the key text
NoEarlierHeading ==
    ~\E p \in 1..(KeyStart - 1) : MatchAt(KeyBody(input), p, LitLinks)

\* the text after FR-0001 does not carry the identifier on: it does not
\* start with a digit or a lowercase letter, nor with a hyphen followed by a
\* character other than whitespace, `/` and `]`
IdentifierEnds ==
    LET body == KeyBody(input)
    IN  \/ KeyEnd > Len(body)
        \/ /\ body[KeyEnd] \notin (Digit \cup Lower)
           /\ ~(/\ body[KeyEnd] = "-"
                /\ KeyEnd + 1 <= Len(body)
                /\ body[KeyEnd + 1] \notin {" ", "\n", "\t", "\r", "/", "]"})

(* C6 amended: the requirements list contains FR-0001 when no `## Links`   *)
(* occurs earlier in the body and the text after FR-0001 does not carry    *)
(* the identifier on.                                                      *)
KeyFoundWhenFirst ==
    (pc = "parsed" /\ NoEarlierHeading /\ IdentifierEnds) =>
        IdFR0001 \in Range(LinksGet(result, "requirements"))

\* a body with text before and after the key text, the text after starting
\* with a hyphen, in which FR-0001 was found
KeyFoundWitness ==
    /\ pc = "parsed"
    /\ NoEarlierHeading /\ IdentifierEnds
    /\ input.before # <<>>
    /\ Len(input.after) = 2 /\ input.after[1] = <<"-">>
    /\ IdFR0001 \in Range(LinksGet(result, "requirements"))

----------------------------------------------------------------------------
(* Properties of extract_status (specification SpecStatus).                *)

\* the value the first unindented `- Status:` line of text carries on that
\* line, trimmed; Unknown without such a line or without a value on it
StatusOfFirstLine(text) ==
    LET starts == {p \in 1..Len(text) :
                      /\ p = 1 \/ text[p - 1] = "\n"
                      /\ MatchAt(text, p, LitStatus)}
    IN  IF starts = {} THEN LitUnknown
        ELSE LET p == Min(starts)
                 v == Strip(Slice(text, p + Len(LitStatus), RunUntil(text, p, {"\n"})))
             IN  IF v = <<>> THEN LitUnknown ELSE v

(* C9: extract_status returns the trimmed value of the first unindented    *)
(* `- Status:` line, taken from that line only, and Unknown when there is  *)
(* no such line or the line has no value.                                  *)
StatusFromFirstLine ==
    pc = "extracted" => result = StatusOfFirstLine(Concat(input))

====
